---- MODULE Spec2Model ----
(***************************************************************************)
(* Model of src/app.py: the Flask API of the Precious Metals Bull Market   *)
(* Tracker.  The process loads schema_and_data.sql into an in-memory       *)
(* SQLite database when the module is imported and then answers read-only  *)
(* requests.                                                               *)
(*                                                                         *)
(* Conventions                                                             *)
(*  - A Python/SQL string that takes part in query text is a sequence of   *)
(*    lexemes.  Every lexeme stands for a fixed run of characters ("gold", *)
(*    "_2024", "_current", "'", "or", "=", ...), so concatenation, upper(),  *)
(*    lower(), endswith() and SQLite's tokenizer are computed on what the  *)
(*    string contains.                                                     *)
(*  - A nullable value (Python None, SQL NULL) is None, the empty         *)
(*    sequence; a present value v is Some(v), the sequence of v alone.     *)
(*  - A call that may raise returns [ok |-> TRUE, val |-> v] or            *)
(*    [ok |-> FALSE, err |-> message].                                     *)
(***************************************************************************)
EXTENDS Integers, Sequences, FiniteSets, TLC

VARIABLES
    sql_dump,       \* schema_and_data.sql on disk: None, or Some(tables)
    pc,             \* "load" while the module is imported, then "serving"
    db_conn,        \* the global connection: None or Some("conn")
    db,             \* content of the in-memory database behind the connection
    db_init_error,  \* the global db_init_error: None or Some(message)
    request,        \* the request handled last
    response        \* the response returned last

vars == <<sql_dump, pc, db_conn, db, db_init_error, request, response>>

----------------------------------------------------------------------------
(* Values *)

None == <<>>
Some(v) == <<v>>
Val(o) == o[1]

Ok(v) == [ok |-> TRUE, val |-> v]
Raise(msg) == [ok |-> FALSE, err |-> msg]

Abs(x) == IF x < 0 THEN -x ELSE x

Last(s) == s[Len(s)]

----------------------------------------------------------------------------
(* Strings as lexeme sequences *)

Q == "'"

\* The lexemes that hold lower-case letters, with their upper-case forms
upperOf == [l \in {"gold", "silver", "platinum", "x", " or "} |->
              CASE l = "gold" -> "GOLD"
                [] l = "silver" -> "SILVER"
                [] l = "platinum" -> "PLATINUM"
                [] l = "x" -> "X"
                [] l = " or " -> " OR "]

\* The lexemes that hold upper-case letters, with their lower-case forms
lowerOf == [l \in {"GOLD", "SILVER", "PLATINUM", "X", " OR "} |->
              CASE l = "GOLD" -> "gold"
                [] l = "SILVER" -> "silver"
                [] l = "PLATINUM" -> "platinum"
                [] l = "X" -> "x"
                [] l = " OR " -> " or "]

\* str.upper(): letters are raised, every other character is kept
upper(s) == [i \in 1..Len(s) |-> IF s[i] \in DOMAIN upperOf THEN upperOf[s[i]] ELSE s[i]]

\* str.lower()
lower(s) == [i \in 1..Len(s) |-> IF s[i] \in DOMAIN lowerOf THEN lowerOf[s[i]] ELSE s[i]]

\* str.endswith(suffix) for a one-lexeme suffix
endswith(s, suffix) == Len(s) > 0 /\ Last(s) = suffix

----------------------------------------------------------------------------
(* SQLite: the text of a WHERE clause, tokenized, parsed and evaluated *)

EqLexemes == {"=", " = "}
OrLexemes == {" or ", " OR "}
AndLexemes == {" and ", " AND "}
DigitLexemes == {"0", "1"}

IsWord(l) == l # Q /\ l \notin EqLexemes \cup OrLexemes \cup AndLexemes \cup DigitLexemes

\* A string literal opened before position j: the literal's value and the
\* position after its closing quote.  Two quotes in a row inside a literal
\* are one quote character; a literal the text ends inside is an error.
RECURSIVE ScanString(_, _, _)
ScanString(s, j, val) ==
    IF j > Len(s) THEN Raise("unrecognized token")
    ELSE IF s[j] = Q
         THEN IF j + 1 <= Len(s) /\ s[j + 1] = Q
              THEN ScanString(s, j + 2, Append(val, Q))
              ELSE Ok([v |-> val, next |-> j + 1])
         ELSE ScanString(s, j + 1, Append(val, s[j]))

\* The run of word lexemes starting at i is one identifier
RECURSIVE ScanWord(_, _, _)
ScanWord(s, j, val) ==
    IF j <= Len(s) /\ (IsWord(s[j]) \/ s[j] \in DigitLexemes)
    THEN ScanWord(s, j + 1, Append(val, s[j]))
    ELSE [v |-> val, next |-> j]

\* sqlite3GetToken over the whole text
RECURSIVE Tokenize(_, _, _)
Tokenize(s, i, acc) ==
    IF i > Len(s) THEN Ok(acc)
    ELSE IF s[i] = Q
         THEN LET lit == ScanString(s, i + 1, <<>>)
              IN  IF lit.ok
                  THEN Tokenize(s, lit.val.next, Append(acc, [t |-> "str", v |-> lit.val.v]))
                  ELSE lit
    ELSE IF s[i] \in EqLexemes THEN Tokenize(s, i + 1, Append(acc, [t |-> "op", v |-> <<"=">>]))
    ELSE IF s[i] \in OrLexemes THEN Tokenize(s, i + 1, Append(acc, [t |-> "kw", v |-> <<"OR">>]))
    ELSE IF s[i] \in AndLexemes THEN Tokenize(s, i + 1, Append(acc, [t |-> "kw", v |-> <<"AND">>]))
    ELSE IF s[i] \in DigitLexemes
         THEN IF i + 1 <= Len(s) /\ (IsWord(s[i + 1]) \/ s[i + 1] \in DigitLexemes)
              THEN Raise("unrecognized token")
              ELSE Tokenize(s, i + 1, Append(acc, [t |-> "num", v |-> <<s[i]>>]))
    ELSE LET w == ScanWord(s, i, <<>>)
         IN  Tokenize(s, w.next, Append(acc, [t |-> "id", v |-> w.v]))

\* The pieces of toks between the tokens equal to sep
RECURSIVE SplitAt(_, _, _, _)
SplitAt(toks, sep, i, cur) ==
    IF i > Len(toks) THEN <<cur>>
    ELSE IF toks[i] = sep THEN <<cur>> \o SplitAt(toks, sep, i + 1, <<>>)
    ELSE SplitAt(toks, sep, i + 1, Append(cur, toks[i]))

KwOr == [t |-> "kw", v |-> <<"OR">>]
KwAnd == [t |-> "kw", v |-> <<"AND">>]
OpEq == [t |-> "op", v |-> <<"=">>]

Columns == {<<"metal">>, <<"cycle_name">>}

IsOperand(tok) == tok.t \in {"str", "num", "id"}

\* expr ::= operand | operand = operand
TermError(term) ==
    IF ~ ( \/ Len(term) = 1 /\ IsOperand(term[1])
           \/ Len(term) = 3 /\ IsOperand(term[1]) /\ term[2] = OpEq /\ IsOperand(term[3]) )
    THEN Some("syntax error")
    ELSE IF \E k \in 1..Len(term) : term[k].t = "id" /\ term[k].v \notin Columns
    THEN Some("no such column")
    ELSE None

\* The WHERE clause as a disjunction of conjunctions of terms (AND binds
\* tighter than OR), or the error sqlite3_prepare reports
ParseWhere(text) ==
    LET toks == Tokenize(text, 1, <<>>) IN
    IF ~ toks.ok THEN toks
    ELSE LET disj == SplitAt(toks.val, KwOr, 1, <<>>)
             ast == [d \in 1..Len(disj) |-> SplitAt(disj[d], KwAnd, 1, <<>>)]
             errs == UNION {{TermError(ast[d][c]) : c \in 1..Len(ast[d])} : d \in 1..Len(ast)} \ {None}
         IN  IF Some("syntax error") \in errs THEN Raise("syntax error")
             ELSE IF errs # {} THEN Raise("no such column")
             ELSE Ok(ast)

\* The value of an operand in a row: a column's text, a text or a number
OperandValue(tok, row) ==
    IF tok.t = "id"
    THEN [t |-> "str", v |-> IF tok.v = <<"metal">> THEN row.metal ELSE row.cycle_name]
    ELSE tok

\* A value used as a condition: a number is true unless zero, a text is
\* converted to the number it starts with
Truthy(val) == val.v # <<>> /\ val.v[1] = "1"

EvalTerm(term, row) ==
    IF Len(term) = 1 THEN Truthy(OperandValue(term[1], row))
    ELSE OperandValue(term[1], row) = OperandValue(term[3], row)

EvalWhere(ast, row) ==
    \E d \in 1..Len(ast) : \A c \in 1..Len(ast[d]) : EvalTerm(ast[d][c], row)

----------------------------------------------------------------------------
(* SQLite: tables, ORDER BY, LIMIT/OFFSET, aggregates *)

\* A database is a record of tables; a table is None (no such table) or
\* Some(rows), the rows in rowid order.
Tables == {"historical_prices", "current_prices", "weekly_aggregates", "market_cycles"}

\* The database right after sqlite3.connect: no table yet
EmptyDb == [t \in Tables |-> None]

\* FROM <table>: the rows, or the error of a table that does not exist
From(d, table) == IF d[table] = None THEN Raise("no such table") ELSE Ok(Val(d[table]))

\* seq without its k-th element
RemoveAt(seq, k) == SubSeq(seq, 1, k - 1) \o SubSeq(seq, k + 1, Len(seq))

\* ORDER BY date DESC: rows of equal date stay in rowid order
RECURSIVE OrderByDateDesc(_)
OrderByDateDesc(rows) ==
    IF rows = <<>> THEN <<>>
    ELSE LET k == CHOOSE i \in 1..Len(rows) :
                    /\ \A j \in 1..Len(rows) : rows[j].date <= rows[i].date
                    /\ \A j \in 1..(i - 1) : rows[j].date < rows[i].date
         IN  <<rows[k]>> \o OrderByDateDesc(RemoveAt(rows, k))

\* ORDER BY weeks_from_start: rows of equal week stay in rowid order
RECURSIVE OrderByWeeks(_)
OrderByWeeks(rows) ==
    IF rows = <<>> THEN <<>>
    ELSE LET k == CHOOSE i \in 1..Len(rows) :
                    /\ \A j \in 1..Len(rows) : rows[j].weeks_from_start >= rows[i].weeks_from_start
                    /\ \A j \in 1..(i - 1) : rows[j].weeks_from_start > rows[i].weeks_from_start
         IN  <<rows[k]>> \o OrderByWeeks(RemoveAt(rows, k))

Min(a, b) == IF a < b THEN a ELSE b

\* LIMIT ? OFFSET ?: a negative LIMIT is no limit, a negative OFFSET is 0
LimitOffset(rows, limit, offset) ==
    LET skip == Min(IF offset < 0 THEN 0 ELSE offset, Len(rows))
        take == IF limit < 0 THEN Len(rows) - skip ELSE Min(limit, Len(rows) - skip)
    IN  SubSeq(rows, skip + 1, skip + take)

\* cursor.fetchone(): the first row of the result, or None
fetchone(rows) == IF rows = <<>> THEN None ELSE Some(rows[1])

\* MAX(col) / MIN(col) over a column: NULL when no row has a value
MaxOf(column) ==
    LET vals == {Val(column[i]) : i \in {j \in 1..Len(column) : column[j] # None}}
    IN  IF vals = {} THEN None ELSE Some(CHOOSE v \in vals : \A w \in vals : w <= v)

MinOf(column) ==
    LET vals == {Val(column[i]) : i \in {j \in 1..Len(column) : column[j] # None}}
    IN  IF vals = {} THEN None ELSE Some(CHOOSE v \in vals : \A w \in vals : v <= w)

\* The date / close_price column of rows
DateColumn(rows) == [i \in 1..Len(rows) |-> Some(rows[i].date)]
CloseColumn(rows) == [i \in 1..Len(rows) |-> rows[i].close_price]

----------------------------------------------------------------------------
(* Rows of the four tables (the columns the handlers read) *)

\* historical_prices / current_prices; table and rowid identify the row
PriceRow(table, rowid, metal, cycle_name, date, close_price, is_limit_up) ==
    [table |-> table, rowid |-> rowid, metal |-> metal, cycle_name |-> cycle_name,
     date |-> date, close_price |-> close_price, is_limit_up |-> is_limit_up]

WeeklyRow(metal, cycle_name, weeks_from_start, week_over_week_pct) ==
    [metal |-> metal, cycle_name |-> cycle_name, weeks_from_start |-> weeks_from_start,
     week_over_week_pct |-> week_over_week_pct]

CycleRow(metal, cycle_name, start_price) ==
    [metal |-> metal, cycle_name |-> cycle_name, start_price |-> start_price]

GOLD == <<"GOLD">>
SILVER == <<"SILVER">>

\* f"{metal.lower()}_2024_current" and f"{metal.lower()}_1978_1980"
CurrentCycle(metal) == lower(metal) \o <<"_2024", "_current">>
ReferenceCycle(metal) == lower(metal) \o <<"_1978_1980">>

----------------------------------------------------------------------------
(* Start-up: init_database and get_db_connection *)

NotFoundMsg == "SQL dump not found"

\* init_database() as it would be if the failure reason were not recorded
init_database_unrecorded ==
    IF sql_dump # None
    THEN [db_conn |-> Some("conn"), db |-> Val(sql_dump), db_init_error |-> None,
          raised |-> None]
    ELSE [db_conn |-> Some("conn"), db |-> EmptyDb, db_init_error |-> None,
          raised |-> Some(NotFoundMsg)]

\* init_database(): what it leaves in the globals, and the exception it
\* raises (None when it returns).  The connection is opened before the dump
\* is looked for, so db_conn is set even when the dump is missing.
init_database ==
    IF sql_dump # None
    THEN [db_conn |-> Some("conn"), db |-> Val(sql_dump), db_init_error |-> None,
          raised |-> None]
    ELSE [db_conn |-> Some("conn"), db |-> EmptyDb, db_init_error |-> Some(NotFoundMsg),
          raised |-> Some(NotFoundMsg)]

\* get_db_connection(): initializes only while db_conn is None
get_db_connection ==
    IF db_conn = None
    THEN init_database
    ELSE [db_conn |-> db_conn, db |-> db, db_init_error |-> db_init_error, raised |-> None]

----------------------------------------------------------------------------
(* Responses *)

NoRequest == [endpoint |-> "none"]
NoResponse == [endpoint |-> "none", status |-> 0, body |-> [none |-> TRUE]]

Success(endpoint, body) == [endpoint |-> endpoint, status |-> 200, body |-> body]

\* The except clause as it would be without its status code (Flask's 200)
ErrorResponse_200(endpoint, msg) == [endpoint |-> endpoint, status |-> 200, body |-> [error |-> msg]]

\* except Exception as e: return jsonify({'error': str(e)}), 500
ErrorResponse(endpoint, msg) == [endpoint |-> endpoint, status |-> 500, body |-> [error |-> msg]]

----------------------------------------------------------------------------
(* GET / and GET /api/health *)

home == Success("home", [name |-> "Precious Metals Bull Market Tracker API",
                         version |-> "1.0", status |-> "ok"])

HealthError(g, msg) ==
    [endpoint |-> "health", status |-> 500,
     body |-> [status |-> "error", message |-> msg, init_error |-> g.db_init_error]]

\* health_check(), g being what get_db_connection() gave
health_check(g) ==
    IF g.raised # None THEN HealthError(g, Val(g.raised))
    ELSE LET rows == From(g.db, "current_prices") IN
         IF ~ rows.ok THEN HealthError(g, rows.err)
         ELSE Success("health", [status |-> "healthy", database |-> "connected",
                                 database_type |-> "in-memory",
                                 current_records |-> Len(rows.val)])

----------------------------------------------------------------------------
(* GET /api/weekly-data/<metal>/<cycle> *)

\* week_over_week_pct is held in units of 1/Scale percent
Scale == 10

\* The tiers as they would be with > in place of >=
Volatility_strict(abs_wow) ==
    IF abs_wow > 5 * Scale
    THEN [dotColor |-> "#ef4444", volatilityLevel |-> "high_volatility"]
    ELSE IF abs_wow > 2 * Scale
    THEN [dotColor |-> "#eab308", volatilityLevel |-> "volatile"]
    ELSE [dotColor |-> "#22c55e", volatilityLevel |-> "normal"]

\* The if/elif/else on abs_wow
Volatility(abs_wow) ==
    IF abs_wow >= 5 * Scale
    THEN [dotColor |-> "#ef4444", volatilityLevel |-> "high_volatility"]
    ELSE IF abs_wow >= 2 * Scale
    THEN [dotColor |-> "#eab308", volatilityLevel |-> "volatile"]
    ELSE [dotColor |-> "#22c55e", volatilityLevel |-> "normal"]

\* row['week_over_week_pct'] if row['week_over_week_pct'] else 0
WowPct(row) ==
    IF row.week_over_week_pct # None /\ Val(row.week_over_week_pct) # 0
    THEN Val(row.week_over_week_pct)
    ELSE 0

\* One element of data
WeeklyPoint(row) ==
    LET wow_pct == WowPct(row)
        abs_wow == Abs(wow_pct)
        v == Volatility(abs_wow)
    IN  [week |-> row.weeks_from_start, weekOverWeekChange |-> wow_pct,
         dotColor |-> v.dotColor, volatilityLevel |-> v.volatilityLevel, showDot |-> TRUE]

\* WHERE metal = ? AND cycle_name = ? with (metal.upper(), cycle) bound
WeeklyRows(d, metal, cycle) ==
    LET rows == From(d, "weekly_aggregates") IN
    IF ~ rows.ok THEN rows
    ELSE Ok(OrderByWeeks(SelectSeq(rows.val,
                LAMBDA r : r.metal = upper(metal) /\ r.cycle_name = cycle)))

get_weekly_data(g, metal, cycle) ==
    IF g.raised # None THEN ErrorResponse("weekly-data", Val(g.raised))
    ELSE LET rows == WeeklyRows(g.db, metal, cycle) IN
         IF ~ rows.ok THEN ErrorResponse("weekly-data", rows.err)
         ELSE LET data == [i \in 1..Len(rows.val) |-> WeeklyPoint(rows.val[i])]
              IN  Success("weekly-data", [metal |-> upper(metal), cycle |-> cycle,
                                          data |-> data, total_weeks |-> Len(data)])

----------------------------------------------------------------------------
(* GET /api/raw-data/<metal>/<cycle>?limit=&offset= *)

DefaultLimit == 100
DefaultOffset == 0

\* A query-string argument: absent, or present with a text that int() accepts
\* (giving n) or rejects
Absent == [present |-> FALSE, isint |-> FALSE, n |-> 0]
NotAnInt == [present |-> TRUE, isint |-> FALSE, n |-> 0]
IntArg(n) == [present |-> TRUE, isint |-> TRUE, n |-> n]

\* request.args.get(key, default, type=int): the default when the key is
\* absent and also when int() raises ValueError
ArgsGetInt(arg, default) ==
    IF ~ arg.present THEN default
    ELSE IF ~ arg.isint THEN default
    ELSE arg.n

\* table chosen by cycle.endswith('_current')
RawTable(cycle) ==
    IF endswith(cycle, "_current") THEN "current_prices" ELSE "historical_prices"

\* cycle_filter, the f-string
CycleFilter(metal, cycle) ==
    IF endswith(cycle, "_current")
    THEN <<"metal", " = ", Q>> \o upper(metal) \o <<Q>>
    ELSE <<"metal", " = ", Q>> \o upper(metal) \o <<Q, " AND ", "cycle_name", " = ", Q>>
           \o cycle \o <<Q>>

\* SELECT ... FROM {table} WHERE {cycle_filter}: the rows matched, in rowid order
RawMatched(d, metal, cycle) ==
    LET rows == From(d, RawTable(cycle)) IN
    IF ~ rows.ok THEN rows
    ELSE LET ast == ParseWhere(CycleFilter(metal, cycle)) IN
         IF ~ ast.ok THEN ast
         ELSE Ok(SelectSeq(rows.val, LAMBDA r : EvalWhere(ast.val, r)))

\* The page query as it would be with the offset counted from 1
RawPage_offByOne(matched, limit, offset) ==
    LimitOffset(OrderByDateDesc(matched), limit, offset - 1)

\* ... ORDER BY date DESC LIMIT ? OFFSET ? with (limit, offset) bound
RawPage(matched, limit, offset) == LimitOffset(OrderByDateDesc(matched), limit, offset)

\* serialize_data: the row as returned (table and rowid tell where it came from)
RawItem(r) == [table |-> r.table, rowid |-> r.rowid, date |-> r.date,
               close_price |-> r.close_price]

get_raw_data(g, metal, cycle, limitArg, offsetArg) ==
    LET limit == ArgsGetInt(limitArg, DefaultLimit)
        offset == ArgsGetInt(offsetArg, DefaultOffset)
    IN
    IF g.raised # None THEN ErrorResponse("raw-data", Val(g.raised))
    ELSE LET matched == RawMatched(g.db, metal, cycle) IN
         IF ~ matched.ok THEN ErrorResponse("raw-data", matched.err)
         ELSE LET total_records == Len(matched.val)
                  rows == RawPage(matched.val, limit, offset)
                  data == [i \in 1..Len(rows) |-> RawItem(rows[i])]
              IN  Success("raw-data",
                          [metal |-> upper(metal), cycle |-> cycle, data |-> data,
                           total_records |-> total_records, limit |-> limit,
                           offset |-> offset,
                           has_more |-> (offset + limit) < total_records])

----------------------------------------------------------------------------
(* GET /api/market-summary *)

\* The return as it would be if a zero or missing operand gave 0
PctReturn_silentZero(price, start) ==
    IF price = None \/ start = None \/ start = Some(0) THEN Ok([num |-> 0, den |-> 1])
    ELSE Ok([num |-> (Val(price) - Val(start)) * 100, den |-> Val(start)])

\* ((price - start) / start) * 100 on values that may be None: arithmetic on
\* None raises TypeError, division by zero raises ZeroDivisionError.  The
\* quotient is kept exact, as numerator and denominator.
PctReturn(price, start) ==
    IF price = None \/ start = None THEN Raise("TypeError")
    ELSE IF Val(start) = 0 THEN Raise("ZeroDivisionError")
    ELSE Ok([num |-> (Val(price) - Val(start)) * 100, den |-> Val(start)])

\* round(x, 1), in tenths: the nearest tenth, a tie going to the even one
\* (binary floating point error is not modelled)
Round1(x) ==
    LET n == IF x.den < 0 THEN -(x.num * 10) ELSE x.num * 10
        d == Abs(x.den)
        fl == n \div d
        rem2 == 2 * (n - fl * d)
    IN  IF rem2 < d THEN fl
        ELSE IF rem2 > d THEN fl + 1
        ELSE IF fl % 2 = 0 THEN fl ELSE fl + 1

\* The four queries of one loop iteration; a missing table raises
SummaryQueries(d, metal) ==
    LET cur == From(d, "current_prices")
        cyc == From(d, "market_cycles")
        his == From(d, "historical_prices")
    IN
    IF ~ cur.ok THEN cur
    ELSE IF ~ cyc.ok THEN cyc
    ELSE IF ~ his.ok THEN his
    ELSE LET ofMetal == SelectSeq(cur.val, LAMBDA r : r.metal = metal) IN
         Ok([current_data |-> fetchone(LimitOffset(OrderByDateDesc(ofMetal), 1, 0)),
             cycle_info |-> fetchone(SelectSeq(cyc.val,
                 LAMBDA r : r.metal = metal /\ r.cycle_name = CurrentCycle(metal))),
             historical_peak |-> Some([peak_price |-> MaxOf(CloseColumn(SelectSeq(his.val,
                 LAMBDA r : r.metal = metal /\ r.cycle_name = ReferenceCycle(metal))))]),
             limit_up_info |-> Some([limit_up_count |-> Len(SelectSeq(ofMetal,
                 LAMBDA r : r.is_limit_up = 1))]),
             hist_start |-> fetchone(SelectSeq(cyc.val,
                 LAMBDA r : r.metal = metal /\ r.cycle_name = ReferenceCycle(metal)))])

\* hist_peak_return: 0 unless the peak is truthy and the reference cycle has
\* a market_cycles row, and then the same arithmetic as current_return
HistPeakReturn(q) ==
    LET peak == Val(q.historical_peak).peak_price IN
    IF q.historical_peak # None /\ peak # None /\ Val(peak) # 0 /\ q.hist_start # None
    THEN PctReturn(peak, Val(q.hist_start).start_price)
    ELSE Ok([num |-> 0, den |-> 1])

\* The loop body as it would be without the guard on current_data and
\* cycle_info: subscripting None raises TypeError
SummaryEntry_unguarded(d, metal) ==
    LET qs == SummaryQueries(d, metal) IN
    IF ~ qs.ok THEN qs
    ELSE LET q == qs.val IN
         IF q.current_data = None \/ q.cycle_info = None THEN Raise("TypeError")
         ELSE LET current_price == Val(q.current_data).close_price
                  start_price == Val(q.cycle_info).start_price
                  current_return == PctReturn(current_price, start_price)
                  hist_peak_return == HistPeakReturn(q)
              IN  IF ~ current_return.ok THEN current_return
                  ELSE IF ~ hist_peak_return.ok THEN hist_peak_return
                  ELSE Ok(Some([currentPrice |-> current_price,
                                currentReturn |-> Round1(current_return.val),
                                lastUpdate |-> Val(q.current_data).date,
                                historicalPeak |-> Val(q.historical_peak).peak_price,
                                historicalPeakReturn |-> Round1(hist_peak_return.val),
                                limitUpDays |-> Val(q.limit_up_info).limit_up_count]))

\* The body of the loop for one metal: Ok(None) when the metal gets no
\* entry, Ok(Some(entry)) when it gets one, or the exception raised
SummaryEntry(d, metal) ==
    LET qs == SummaryQueries(d, metal) IN
    IF ~ qs.ok THEN qs
    ELSE LET q == qs.val IN
         IF q.current_data # None /\ q.cycle_info # None
         THEN LET current_price == Val(q.current_data).close_price
                  start_price == Val(q.cycle_info).start_price
                  current_return == PctReturn(current_price, start_price)
                  hist_peak_return == HistPeakReturn(q)
              IN  IF ~ current_return.ok THEN current_return
                  ELSE IF ~ hist_peak_return.ok THEN hist_peak_return
                  ELSE Ok(Some([currentPrice |-> current_price,
                                currentReturn |-> Round1(current_return.val),
                                lastUpdate |-> Val(q.current_data).date,
                                historicalPeak |-> Val(q.historical_peak).peak_price,
                                historicalPeakReturn |-> Round1(hist_peak_return.val),
                                limitUpDays |-> Val(q.limit_up_info).limit_up_count]))
         ELSE Ok(None)

SummaryMetals == <<GOLD, SILVER>>

\* for metal in ['GOLD', 'SILVER']: from the i-th metal on, with the summary
\* built so far; an exception leaves the loop
RECURSIVE SummaryLoop(_, _, _)
SummaryLoop(d, i, summary) ==
    IF i > Len(SummaryMetals) THEN Ok(summary)
    ELSE LET metal == SummaryMetals[i]
             e == SummaryEntry(d, metal)
         IN  IF ~ e.ok THEN e
             ELSE IF e.val = None THEN SummaryLoop(d, i + 1, summary)
             ELSE SummaryLoop(d, i + 1, summary @@ (lower(metal)[1] :> Val(e.val)))

\* summary = {}
EmptySummary == [k \in {} |-> None]

\* What the handler returns for the outcome of the loop
SummaryResponse(result) ==
    IF ~ result.ok THEN ErrorResponse("market-summary", result.err)
    ELSE Success("market-summary", [summary |-> result.val])

get_market_summary(g) ==
    IF g.raised # None THEN ErrorResponse("market-summary", Val(g.raised))
    ELSE SummaryResponse(SummaryLoop(g.db, 1, EmptySummary))

----------------------------------------------------------------------------
(* GET /api/database-stats *)

\* dqs: whether this SQLite build reads the double-quoted "GOLD" of the
\* queries as a string literal (the default) or only as an identifier
get_database_stats(g, dqs) ==
    IF g.raised # None THEN ErrorResponse("database-stats", Val(g.raised))
    ELSE LET his == From(g.db, "historical_prices")
             cur == From(g.db, "current_prices")
             wk == From(g.db, "weekly_aggregates")
         IN
         IF ~ his.ok THEN ErrorResponse("database-stats", his.err)
         ELSE IF ~ dqs THEN ErrorResponse("database-stats", "no such column")
         ELSE IF ~ cur.ok THEN ErrorResponse("database-stats", cur.err)
         ELSE IF ~ wk.ok THEN ErrorResponse("database-stats", wk.err)
         ELSE Success("database-stats", [stats |->
                [gold_historical |-> Len(SelectSeq(his.val, LAMBDA r : r.metal = GOLD)),
                 silver_historical |-> Len(SelectSeq(his.val, LAMBDA r : r.metal = SILVER)),
                 gold_current |-> Len(SelectSeq(cur.val, LAMBDA r : r.metal = GOLD)),
                 silver_current |-> Len(SelectSeq(cur.val, LAMBDA r : r.metal = SILVER)),
                 weekly_aggregates |-> Len(wk.val),
                 historical_range |->
                    [start |-> MinOf(DateColumn(his.val)), end |-> MaxOf(DateColumn(his.val))],
                 current_range |->
                    [start |-> MinOf(DateColumn(cur.val)), end |-> MaxOf(DateColumn(cur.val))]]])

----------------------------------------------------------------------------
(* The dumps the process may be started on *)

MaxRows == 4      \* rows of one metal's series in a price table
MaxWeeks == 2     \* weekly rows of one metal and cycle
MaxPage == 2      \* largest limit / offset a request supplies

Dataset(hist, cur, weekly, cycles) ==
    [historical_prices |-> Some(hist), current_prices |-> Some(cur),
     weekly_aggregates |-> Some(weekly), market_cycles |-> Some(cycles)]

\* One metal's rows of a price table: one row per date of dates, in that
\* order, rowids following base; closes holds the close prices
Series(table, base, metal, cycle_name, dates, closes) ==
    [i \in 1..Len(dates) |->
        PriceRow(table, base + i, metal, cycle_name, dates[i], closes[i], dates[i] % 2)]

\* close price of the row dated d of a generated series
CloseOn(d) == Some(100 + 5 * d)

Closes(dates) == [i \in 1..Len(dates) |-> CloseOn(dates[i])]

SilverCurrent(base) ==
    Series("current_prices", base, SILVER, CurrentCycle(SILVER), <<2, 1>>, <<Some(30), Some(25)>>)

OtherHistorical(base) ==
    Series("historical_prices", base, GOLD, <<"gold", "_1970_1974">>, <<1, 2>>,
           <<Some(40), Some(50)>>)
    \o Series("historical_prices", base + 2, SILVER, ReferenceCycle(SILVER), <<1>>, <<Some(20)>>)

BaseCycles ==
    <<CycleRow(GOLD, CurrentCycle(GOLD), Some(100)),
      CycleRow(GOLD, ReferenceCycle(GOLD), Some(100)),
      CycleRow(SILVER, CurrentCycle(SILVER), Some(20)),
      CycleRow(SILVER, ReferenceCycle(SILVER), Some(10))>>

BaseWeekly ==
    <<WeeklyRow(GOLD, CurrentCycle(GOLD), 2, Some(2 * Scale)),
      WeeklyRow(GOLD, CurrentCycle(GOLD), 1, None),
      WeeklyRow(SILVER, CurrentCycle(SILVER), 1, Some(-(5 * Scale)))>>

\* A dump whose GOLD series (current and reference cycle) have the given dates
PriceDataset(dates, cycles) ==
    Dataset(Series("historical_prices", 0, GOLD, ReferenceCycle(GOLD), dates, Closes(dates))
              \o OtherHistorical(Len(dates)),
            Series("current_prices", 0, GOLD, CurrentCycle(GOLD), dates, Closes(dates))
              \o SilverCurrent(Len(dates)),
            BaseWeekly, cycles)

\* Row orders of a series of n dates: ascending, descending, rotated
DateOrders(n) ==
    { [i \in 1..n |-> i], [i \in 1..n |-> n + 1 - i], [i \in 1..n |-> (i % n) + 1] }

\* The same dump with another start price for SILVER's current cycle
CyclesWithSilverStart(start) ==
    [BaseCycles EXCEPT ![3] = CycleRow(SILVER, CurrentCycle(SILVER), start)]

BaseDatasets ==
    { PriceDataset(<<1, 3, 2>>, BaseCycles),
      PriceDataset(<<1, 3, 2>>, CyclesWithSilverStart(Some(0))),
      PriceDataset(<<>>, BaseCycles) }

RawDatasets ==
    { PriceDataset(dates, BaseCycles) : dates \in UNION {DateOrders(n) : n \in 0..MaxRows} }

\* week_over_week_pct values around the two thresholds, of both signs
WowChoices ==
    {None} \cup {Some(w) : w \in {0, 2 * Scale - 1, 2 * Scale, 5 * Scale - 1, 5 * Scale,
                                  5 * Scale + 1, -(2 * Scale), -(5 * Scale)}}

\* GOLD's weekly rows: up to MaxWeeks rows, weeks in descending rowid order
WeeklyTables ==
    UNION { { [i \in 1..n |-> WeeklyRow(GOLD, CurrentCycle(GOLD), n + 1 - i, wows[i])]
                \o <<WeeklyRow(SILVER, CurrentCycle(GOLD), 1, Some(5 * Scale)),
                     WeeklyRow(GOLD, ReferenceCycle(GOLD), 1, Some(2 * Scale))>>
              : wows \in [1..n -> WowChoices] } : n \in 0..MaxWeeks }

WeeklyDatasets ==
    { Dataset(OtherHistorical(0), SilverCurrent(0), w, BaseCycles) : w \in WeeklyTables }

\* market_cycles rows of one key: no row, or one row with a NULL, zero or
\* positive start price
StartChoices == { <<>>, <<None>>, <<Some(0)>>, <<Some(100)>> }

\* close prices of a metal's current rows (date = position): none, or two
CurrentChoices == { <<>>, <<Some(110), Some(125)>> }

\* close prices of a metal's reference-cycle rows: none, a NULL, a zero, or
\* two prices
PeakChoices == { <<>>, <<None>>, <<Some(0)>>, <<Some(150), Some(300)>> }

CycleRows(metal, cycle_name, starts) ==
    [i \in 1..Len(starts) |-> CycleRow(metal, cycle_name, starts[i])]

Dates(closes) == [i \in 1..Len(closes) |-> i]

\* c: for GOLD and SILVER, the choice of current rows, current-cycle start,
\* reference-cycle rows and reference-cycle start
SummaryDataset(c) ==
    Dataset(Series("historical_prices", 0, GOLD, ReferenceCycle(GOLD),
                   Dates(c.gold.peak), c.gold.peak)
              \o Series("historical_prices", Len(c.gold.peak), SILVER, ReferenceCycle(SILVER),
                        Dates(c.silver.peak), c.silver.peak),
            Series("current_prices", 0, GOLD, CurrentCycle(GOLD),
                   Dates(c.gold.cur), c.gold.cur)
              \o Series("current_prices", Len(c.gold.cur), SILVER, CurrentCycle(SILVER),
                        Dates(c.silver.cur), c.silver.cur),
            BaseWeekly,
            CycleRows(GOLD, CurrentCycle(GOLD), c.gold.start)
              \o CycleRows(GOLD, ReferenceCycle(GOLD), c.gold.refstart)
              \o CycleRows(SILVER, CurrentCycle(SILVER), c.silver.start)
              \o CycleRows(SILVER, ReferenceCycle(SILVER), c.silver.refstart))

MetalChoices ==
    [cur : CurrentChoices, start : StartChoices, peak : PeakChoices, refstart : StartChoices]

SummaryDatasets == { SummaryDataset(c) : c \in [gold : MetalChoices, silver : MetalChoices] }

----------------------------------------------------------------------------
(* Request inputs *)

Injection == <<"x", Q, " or ", Q, "1", Q, "=", Q, "1">>

MetalInputs == { <<"gold">>, <<"platinum">>, Injection, <<"gold", Q>> }

CycleInputs == { <<"gold", "_2024", "_current">>, <<"zzz", "_current">>,
                 <<"gold", "_1978_1980">>, Injection }

\* <<limit, offset>> as supplied: left out, not integers, negative, and the
\* first and second page of each page size
PageInputs ==
    { <<Absent, Absent>>, <<NotAnInt, Absent>>, <<Absent, NotAnInt>>,
      <<IntArg(-1), Absent>>, <<IntArg(1), IntArg(-1)>> }
    \cup { <<IntArg(L), IntArg(0)>> : L \in 1..MaxPage }
    \cup { <<IntArg(L), IntArg(L)>> : L \in 1..MaxPage }

----------------------------------------------------------------------------
(* The state machine *)

\* The process starts importing the module, the dump being one of dumps or missing
InitOn(datasets) ==
    /\ sql_dump \in {None} \cup {Some(d) : d \in datasets}
    /\ pc = "load"
    /\ db_conn = None
    /\ db = EmptyDb
    /\ db_init_error = None
    /\ request = NoRequest
    /\ response = NoResponse

\* The globals as a call of get_db_connection / init_database leaves them
SetGlobals(g) ==
    /\ db_conn' = g.db_conn
    /\ db' = g.db
    /\ db_init_error' = g.db_init_error

\* Module load: try: init_database() except Exception: print(...)
ModuleLoad ==
    /\ pc = "load"
    /\ SetGlobals(init_database)
    /\ pc' = "serving"
    /\ UNCHANGED <<sql_dump, request, response>>

Home ==
    /\ pc = "serving"
    /\ request' = [endpoint |-> "home"]
    /\ response' = home
    /\ UNCHANGED <<sql_dump, pc, db_conn, db, db_init_error>>

HealthCheck ==
    /\ pc = "serving"
    /\ LET g == get_db_connection IN
         /\ SetGlobals(g)
         /\ request' = [endpoint |-> "health"]
         /\ response' = health_check(g)
    /\ UNCHANGED <<sql_dump, pc>>

GetWeeklyData ==
    /\ pc = "serving"
    /\ \E metal \in MetalInputs, cycle \in CycleInputs :
         LET g == get_db_connection IN
         /\ SetGlobals(g)
         /\ request' = [endpoint |-> "weekly-data", metal |-> metal, cycle |-> cycle]
         /\ response' = get_weekly_data(g, metal, cycle)
    /\ UNCHANGED <<sql_dump, pc>>

GetRawData ==
    /\ pc = "serving"
    /\ \E metal \in MetalInputs, cycle \in CycleInputs, page \in PageInputs :
         LET g == get_db_connection IN
         /\ SetGlobals(g)
         /\ request' = [endpoint |-> "raw-data", metal |-> metal, cycle |-> cycle,
                        limit |-> page[1], offset |-> page[2]]
         /\ response' = get_raw_data(g, metal, cycle, page[1], page[2])
    /\ UNCHANGED <<sql_dump, pc>>

GetMarketSummary ==
    /\ pc = "serving"
    /\ LET g == get_db_connection IN
         /\ SetGlobals(g)
         /\ request' = [endpoint |-> "market-summary"]
         /\ response' = get_market_summary(g)
    /\ UNCHANGED <<sql_dump, pc>>

GetDatabaseStats ==
    /\ pc = "serving"
    /\ \E dqs \in BOOLEAN :
         LET g == get_db_connection IN
         /\ SetGlobals(g)
         /\ request' = [endpoint |-> "database-stats"]
         /\ response' = get_database_stats(g, dqs)
    /\ UNCHANGED <<sql_dump, pc>>

\* The whole API
Init == InitOn(BaseDatasets)
Next ==
    \/ ModuleLoad
    \/ Home
    \/ HealthCheck
    \/ GetWeeklyData
    \/ GetRawData
    \/ GetMarketSummary
    \/ GetDatabaseStats
Spec == Init /\ [][Next]_vars

\* The weekly-data endpoint over the weekly tables
InitWeekly == InitOn(WeeklyDatasets)
NextWeekly == ModuleLoad \/ GetWeeklyData
SpecWeekly == InitWeekly /\ [][NextWeekly]_vars

\* The raw-data endpoint over the price tables
InitRaw == InitOn(RawDatasets)
NextRaw == ModuleLoad \/ GetRawData
SpecRaw == InitRaw /\ [][NextRaw]_vars

\* The market-summary endpoint over the prices and cycle definitions
InitSummary == InitOn(SummaryDatasets)
NextSummary == ModuleLoad \/ GetMarketSummary
SpecSummary == InitSummary /\ [][NextSummary]_vars

----------------------------------------------------------------------------
(* Properties: what the state says about the last request *)

Serving == pc = "serving"
Loaded == Serving /\ sql_dump # None
Answered(endpoint) == Serving /\ response.endpoint = endpoint
Succeeded(endpoint) == Answered(endpoint) /\ response.status = 200

DataEndpoints == {"weekly-data", "raw-data", "market-summary", "database-stats"}

\* The rows of a loaded table, as a set
RowsOf(table) == LET rows == Val(db[table]) IN {rows[i] : i \in 1..Len(rows)}

----------------------------------------------------------------------------
(* C1: weekly points are classified by |week_over_week_pct| alone *)

\* The level and colour the three tiers give to a = |w|
TierOf(a) ==
    IF a >= 5 * Scale THEN <<"high_volatility", "#ef4444">>
    ELSE IF 2 * Scale <= a /\ a < 5 * Scale THEN <<"volatile", "#eab308">>
    ELSE <<"normal", "#22c55e">>

\* The stored rows a weekly point was built from
SourceOf(point) ==
    {r \in RowsOf("weekly_aggregates") : /\ r.metal = response.body.metal
                                         /\ r.cycle_name = response.body.cycle
                                         /\ r.weeks_from_start = point.week}

\* C1: every weekly point returned has the volatilityLevel and dotColor of
\* the tier of |w|, w being the stored week_over_week_pct (0 when NULL):
\* >= 5 high_volatility/#ef4444, 2 <= a < 5 volatile/#eab308, a < 2
\* normal/#22c55e; and showDot is true.
C1_VolatilityTiers ==
    Succeeded("weekly-data") =>
        \A i \in 1..Len(response.body.data) :
            LET p == response.body.data[i] IN
            /\ p.showDot = TRUE
            /\ SourceOf(p) # {}
            /\ \A r \in SourceOf(p) :
                   LET w == IF r.week_over_week_pct = None THEN 0
                            ELSE Val(r.week_over_week_pct)
                   IN  <<p.volatilityLevel, p.dotColor>> = TierOf(Abs(w))

\* A response holding a point at exactly 2 and a point at exactly 5
C1_Witness ==
    /\ Succeeded("weekly-data")
    /\ \E i, j \in 1..Len(response.body.data) :
          /\ Abs(response.body.data[i].weekOverWeekChange) = 2 * Scale
          /\ response.body.data[i].volatilityLevel = "volatile"
          /\ Abs(response.body.data[j].weekOverWeekChange) = 5 * Scale
          /\ response.body.data[j].volatilityLevel = "high_volatility"

----------------------------------------------------------------------------
(* C2, C3, C6: raw-data *)

\* The rows the raw-data request is meant to select: by the suffix of cycle,
\* the current rows of upper(metal), or the historical rows of upper(metal)
\* and cycle
RawExpected ==
    IF endswith(request.cycle, "_current")
    THEN {r \in RowsOf("current_prices") : r.metal = upper(request.metal)}
    ELSE {r \in RowsOf("historical_prices") :
              r.metal = upper(request.metal) /\ r.cycle_name = request.cycle}

Ids(rows) == {<<r.table, r.rowid>> : r \in rows}

ItemIds(data) == {<<data[i].table, data[i].rowid>> : i \in 1..Len(data)}

\* C2: a successful raw-data response counts and returns exactly the rows of
\* the table chosen by the suffix whose metal is upper(metal) (and, for a
\* historical cycle, whose cycle_name is cycle): no other row is returned.
C2_RawRowsByMetalAndCycle ==
    Succeeded("raw-data") =>
        /\ response.body.total_records = Cardinality(RawExpected)
        /\ ItemIds(response.body.data) \subseteq Ids(RawExpected)

DateDescending(data) ==
    \A i, j \in 1..Len(data) : i < j => data[i].date >= data[j].date

\* The request asks for the first page of size L >= 1 and was answered
IsPage1(req, resp, L) ==
    /\ req.endpoint = "raw-data"
    /\ resp.status = 200
    /\ req.limit = IntArg(L)
    /\ req.offset = IntArg(0)

\* req2 asks for the second page of the series of req1
IsPage2(req1, req2, resp2, L) ==
    /\ req2.endpoint = "raw-data"
    /\ resp2.status = 200
    /\ req2.metal = req1.metal
    /\ req2.cycle = req1.cycle
    /\ req2.limit = IntArg(L)
    /\ req2.offset = IntArg(L)

\* p1 then p2 are the first 2L rows of the date-descending series of the
\* rows matched: disjoint, in descending date order across both, as many as
\* the series has up to 2L, and no row left out is dated later than a row
\* returned
Contiguous(p1, p2, L, matched) ==
    LET both == p1 \o p2 IN
    /\ ItemIds(p1) \cap ItemIds(p2) = {}
    /\ Cardinality(ItemIds(both)) = Len(both)
    /\ DateDescending(p1) /\ DateDescending(p2) /\ DateDescending(both)
    /\ Len(p1) = Min(L, Len(matched))
    /\ Len(both) = Min(2 * L, Len(matched))
    /\ ItemIds(both) \subseteq {<<matched[k].table, matched[k].rowid>> : k \in 1..Len(matched)}
    /\ \A k \in 1..Len(matched) :
           <<matched[k].table, matched[k].rowid>> \notin ItemIds(both)
               => \A i \in 1..Len(both) : matched[k].date <= both[i].date

\* C3: page 1 (offset 0, limit L) followed by page 2 (offset L, limit L) of
\* the same metal and cycle are disjoint, date-descending and together the
\* first 2L rows of the full date-descending series.
C3_PagesContiguous ==
    [][ \A L \in 1..MaxPage :
          (Serving /\ IsPage1(request, response, L) /\ IsPage2(request, request', response', L))
            => Contiguous(response.body.data, response'.body.data, L,
                          RawMatched(db, request.metal, request.cycle).val) ]_vars

\* A full second page of size 2 was returned, and rows remain after it
C3_Witness ==
    /\ Succeeded("raw-data")
    /\ request.limit = IntArg(2)
    /\ request.offset = IntArg(2)
    /\ Len(response.body.data) = 2
    /\ response.body.total_records = 4

InvalidArg(arg) == arg.present /\ (~ arg.isint \/ arg.n < 0)

\* C6: limit and offset default to 100 and 0 when absent, and a raw-data
\* request whose limit or offset is supplied and is not a non-negative
\* integer is answered with an error.
C6_InvalidPaginationRejected ==
    (Loaded /\ Answered("raw-data")) =>
        /\ (~ request.limit.present /\ response.status = 200
               => response.body.limit = DefaultLimit)
        /\ (~ request.offset.present /\ response.status = 200
               => response.body.offset = DefaultOffset)
        /\ (InvalidArg(request.limit) \/ InvalidArg(request.offset)
               => response.status # 200)

----------------------------------------------------------------------------
(* C7: malformed identifiers *)

Malformed(req) ==
    \/ upper(req.metal) \notin {GOLD, SILVER}
    \/ \E i \in 1..Len(req.cycle) : req.cycle[i] = Q

\* C7: a weekly-data or raw-data request whose metal is not GOLD or SILVER
\* in any letter case, or whose cycle holds a quote, is rejected: it is not
\* answered with the result of a query.
C7_MalformedRejected ==
    (Loaded /\ (Answered("weekly-data") \/ Answered("raw-data")) /\ Malformed(request))
        => response.status # 200

----------------------------------------------------------------------------
(* C4, C8, C9: market-summary, read off the stored rows *)

BothMetals == {GOLD, SILVER}

KeyOf(metal) == lower(metal)[1]

CurrentRowsOf(metal) == {r \in RowsOf("current_prices") : r.metal = metal}

\* The latest current-price row of the metal
LatestRow(metal) ==
    CHOOSE r \in CurrentRowsOf(metal) : \A q \in CurrentRowsOf(metal) : q.date <= r.date

DefsOf(metal, cycle_name) ==
    {r \in RowsOf("market_cycles") : r.metal = metal /\ r.cycle_name = cycle_name}

\* The start price of the cycle's definition
StartOf(metal, cycle_name) == (CHOOSE r \in DefsOf(metal, cycle_name) : TRUE).start_price

\* The metal has a current-price row and a current-cycle definition
HasBoth(metal) == CurrentRowsOf(metal) # {} /\ DefsOf(metal, CurrentCycle(metal)) # {}

\* A start price that is zero or missing
BadStart(start) == start = None \/ start = Some(0)

\* The non-NULL closes of the reference cycle's rows
PeakCloses(metal) ==
    {Val(r.close_price) :
        r \in {q \in RowsOf("historical_prices") : /\ q.metal = metal
                                                   /\ q.cycle_name = ReferenceCycle(metal)
                                                   /\ q.close_price # None}}

HasRefDef(metal) == DefsOf(metal, ReferenceCycle(metal)) # {}

\* currentReturn can be computed: a price, and a start price to divide by
CurrentOk(metal) ==
    LatestRow(metal).close_price # None /\ ~ BadStart(StartOf(metal, CurrentCycle(metal)))

\* The reference cycle has no peak close, or its start price is unavailable
PeakUnavailable(metal) ==
    \/ PeakCloses(metal) = {}
    \/ ~ HasRefDef(metal)
    \/ BadStart(StartOf(metal, ReferenceCycle(metal)))

\* The handler divides a non-zero peak by the reference start price
DividesByRefStart(metal) ==
    /\ PeakCloses(metal) # {} /\ PeakCloses(metal) # {0}
    /\ HasRefDef(metal)

\* Both returns of the metal can be computed
ComputesOk(metal) ==
    /\ CurrentOk(metal)
    /\ DividesByRefStart(metal) => ~ BadStart(StartOf(metal, ReferenceCycle(metal)))

\* No metal's reference cycle has a peak to divide and a zero or NULL start
\* price to divide it by
RefStartsUsable ==
    \A metal \in BothMetals :
        DividesByRefStart(metal) => ~ BadStart(StartOf(metal, ReferenceCycle(metal)))

C8_BadStartIsError ==
    (Loaded /\ Answered("market-summary")
       /\ \E metal \in BothMetals :
              HasBoth(metal) /\ BadStart(StartOf(metal, CurrentCycle(metal))))
        => response.status = 500 /\ DOMAIN response.body = {"error"}

\* GOLD's start price is zero and the request failed
C8_Witness ==
    /\ Loaded /\ Answered("market-summary")
    /\ HasBoth(GOLD) /\ StartOf(GOLD, CurrentCycle(GOLD)) = Some(0)
    /\ HasBoth(SILVER) /\ ComputesOk(SILVER)
    /\ response.status = 500

\* C9: when the currentReturn of every metal that has both can be computed
\* and the reference cycle's peak or start price is unavailable for each of
\* them, the request succeeds and each such metal's historicalPeakReturn
\* is 0.
C9_PeakUnavailableTolerated ==
    (Loaded /\ Answered("market-summary")
       /\ \A metal \in BothMetals : HasBoth(metal) => CurrentOk(metal) /\ PeakUnavailable(metal))
        => /\ response.status = 200
           /\ \A metal \in BothMetals :
                  HasBoth(metal) => response.body.summary[KeyOf(metal)].historicalPeakReturn = 0

----------------------------------------------------------------------------
(* C5, C10: start-up failure and the request boundary *)

\* C5: when the dump was not found, every health answer is HTTP 500 with
\* status 'error' and the init_error recorded at start-up, every data query
\* fails, and the recorded reason stays as recorded; when start-up succeeded
\* init_error is None and health answers 'healthy'.
C5_StartupFailureReported ==
    Serving =>
        IF sql_dump = None
        THEN /\ db_init_error = Some(NotFoundMsg)
             /\ Answered("health") =>
                    /\ response.status = 500
                    /\ response.body.status = "error"
                    /\ response.body.init_error = Some(NotFoundMsg)
             /\ response.endpoint \in DataEndpoints =>
                    response.status = 500 /\ DOMAIN response.body = {"error"}
        ELSE /\ db_init_error = None
             /\ Answered("health") =>
                    response.status = 200 /\ response.body.status = "healthy"

\* A health request answered after a failed start-up
C5_Witness ==
    /\ Serving /\ sql_dump = None
    /\ Answered("health")
    /\ response.status = 500
    /\ response.body.init_error = Some(NotFoundMsg)

SuccessKeys ==
    [e \in DataEndpoints |->
        CASE e = "weekly-data" -> {"metal", "cycle", "data", "total_weeks"}
          [] e = "raw-data" -> {"metal", "cycle", "data", "total_records", "limit",
                                "offset", "has_more"}
          [] e = "market-summary" -> {"summary"}
          [] e = "database-stats" -> {"stats"}]

\* C10: a data endpoint answers either 200 with its complete success body or
\* 500 with a body holding only 'error'; a request that cannot be served
\* (no table loaded) is a 500; and when market-summary fails on SILVER after
\* GOLD's entry was computed the response is the error body, without a
\* summary.
C10_ErrorsAtBoundary ==
    (Serving /\ response.endpoint \in DataEndpoints) =>
        /\ \/ response.status = 200 /\ DOMAIN response.body = SuccessKeys[response.endpoint]
           \/ response.status = 500 /\ DOMAIN response.body = {"error"}
        /\ sql_dump = None => response.status = 500
        /\ (Loaded /\ Answered("market-summary")
              /\ HasBoth(GOLD) /\ ComputesOk(GOLD)
              /\ HasBoth(SILVER) /\ ~ ComputesOk(SILVER))
             => response.status = 500 /\ DOMAIN response.body = {"error"}

\* market-summary failed on SILVER although GOLD's entry could be computed
C10_Witness ==
    /\ Loaded /\ Answered("market-summary")
    /\ HasBoth(GOLD) /\ ComputesOk(GOLD)
    /\ HasBoth(SILVER) /\ ~ ComputesOk(SILVER)
    /\ response.status = 500

====
